---- MODULE Spec2Model ----
(***************************************************************************)
(* Railroad syntax diagrams (diagram.js): the turtle-graphics TrackBuilder,*)
(* the Expression layout combinators (textBox, sequence, stack, bypass,    *)
(* loop), the RenderContext and the Diagram that renders a list of rules.  *)
(*                                                                         *)
(* Five specifications share the variables:                                *)
(*   SpecTrack  a caller drives one TrackBuilder through its public API;   *)
(*   Spec       expression code is evaluated bottom-up (an operand stack   *)
(*              of LayoutBoxes) and finished expressions are added to a    *)
(*              Diagram, which re-renders all of its rules;                *)
(*   SpecPage   a document uses the library: validateExpressionCode is     *)
(*              called on expression codes, renderDiagramScripts renders   *)
(*              the script tags;                                           *)
(*   SpecRender a script adds rules to Diagrams; some expressions hold a   *)
(*              LayoutBox of the script's own whose render throws;         *)
(*   SpecLayout as Spec, with one text and deeper expression trees.        *)
(*                                                                         *)
(* Modelling conventions                                                   *)
(*   - a JavaScript exception in flight is the field `thrown` of the       *)
(*     TrackBuilder record: every operation propagates a pending           *)
(*     exception unchanged, as the statements after a throw are skipped;   *)
(*   - a d3 group (an SVG <g>) is the sequence of the elements appended to *)
(*     it, in order; TrackBuilder.group and RenderContext.group are the    *)
(*     same object, kept once, in the TrackBuilder record;                 *)
(*   - a path command string such as `M 24 48` is the tuple                *)
(*     <<"M", 24, 48>>; a debugSequence entry such as `forward(2)` is      *)
(*     <<"forward", 2>>;                                                   *)
(*   - a text is known by its className and its measured width in grid     *)
(*     units (Expression._measureText is an external collaborator).        *)
(***************************************************************************)
EXTENDS Integers, Sequences, FiniteSets, TLC

VARIABLES
    tb,         \* SpecTrack: the TrackBuilder under test; SpecRender: the
                \* TrackBuilder the last failed render threw with
    lastCall,   \* the name of the last API call
    err,        \* the message the last call threw, or NoError
    wasOpen,    \* whether tb had an open path when the last call was made
    operands,   \* Spec: LayoutBoxes built so far by the expression being evaluated
    rules,      \* Spec: Diagram.rules
    svg,        \* Spec: the children of Diagram.svg, in document order
    page        \* SpecPage: the document, see NewPage

vars == <<tb, lastCall, err, wasOpen, operands, rules, svg, page>>

(***************************************************************************)
(* Bounds of the model.                                                    *)
(***************************************************************************)
MaxStart == 0      \* start(x, y, _) is called with x, y in 0..MaxStart
MaxUnits == 2      \* forward(units) is called with units in 0..MaxUnits
MaxCommands == 5   \* commands of the open path
MaxTextLen == 4    \* texts have 0..MaxTextLen characters
MaxNodes == 4      \* LayoutBoxes alive (operands and rules, subtrees included)
MaxRules == 2      \* rules of the Diagram
MaxScripts == 2    \* script tags of type text/railroad in the document
MaxBoxes == 5      \* SpecLayout: LayoutBoxes alive (operands and rules)

(***************************************************************************)
(* Program constants.                                                      *)
(***************************************************************************)
GridSize == 24

NORTH == "north"
SOUTH == "south"
EAST == "east"
WEST == "west"
Direction == {NORTH, SOUTH, EAST, WEST}

NoError == "none"
ErrAlreadyStarted == "Path already started. Call finish() before starting a new path."
ErrNoPathStarted == "No path started. Call start() first."
ErrNoPathToFinish == "No path to finish. Call start() first."
ErrNoArc == "No arc transition defined"

RAIL_TRACK_CLASS == "rail-track"
NoDebugId == <<>>
DebugIds == {NoDebugId}

\* JavaScript's remainder: the sign of the result is the sign of the dividend.
JsRem(a, b) == IF a >= 0 THEN a % b ELSE -((-a) % b)

roundUpToEvenIdentity(value) == value

roundUpToEven(value) == value + JsRem(value, 2)

(***************************************************************************)
(* TrackBuilder                                                            *)
(***************************************************************************)
ARC_TRANSITIONS ==
    { <<EAST, NORTH>>, <<EAST, SOUTH>>, <<WEST, NORTH>>, <<WEST, SOUTH>>,
      <<NORTH, EAST>>, <<NORTH, WEST>>, <<SOUTH, EAST>>, <<SOUTH, WEST>> }

\* constructor(group, gridSize): currentPath null is the empty sequence, an
\* open path is <<[commands, debugSequence]>>.
TrackBuilder(group) ==
    [ group            |-> group,
      currentPath      |-> <<>>,
      currentX         |-> 0,
      currentY         |-> 0,
      currentDirection |-> EAST,
      paths            |-> <<>>,
      thrown           |-> NoError ]

Throw(t, message) == [t EXCEPT !.thrown = message]

_getDirectionDelta(direction) ==
    CASE direction = NORTH -> [x |-> 0, y |-> -1]
      [] direction = SOUTH -> [x |-> 0, y |-> 1]
      [] direction = EAST  -> [x |-> 1, y |-> 0]
      [] direction = WEST  -> [x |-> -1, y |-> 0]

\* The counterclockwise rotation confused with the clockwise one.
_turnLeftClockwise(direction) ==
    CASE direction = NORTH -> EAST
      [] direction = EAST  -> SOUTH
      [] direction = SOUTH -> WEST
      [] direction = WEST  -> NORTH

_turnLeft(direction) ==
    CASE direction = NORTH -> WEST
      [] direction = WEST  -> SOUTH
      [] direction = SOUTH -> EAST
      [] direction = EAST  -> NORTH

_turnRight(direction) ==
    CASE direction = NORTH -> EAST
      [] direction = EAST  -> SOUTH
      [] direction = SOUTH -> WEST
      [] direction = WEST  -> NORTH

startNoGuard(t, x, y, direction) ==
    IF t.thrown # NoError THEN t
    ELSE [t EXCEPT
            !.currentX = x,
            !.currentY = y,
            !.currentDirection = direction,
            !.currentPath = << [ commands      |-> << <<"M", x * GridSize, y * GridSize>> >>,
                                 debugSequence |-> << <<"start", x, y, direction>> >> ] >>]

\* start moving the cursor and dropping the open path before it throws.
startResetsThenThrows(t, x, y, direction) ==
    IF t.thrown # NoError THEN t
    ELSE IF t.currentPath # <<>>
    THEN Throw([t EXCEPT !.currentX = x, !.currentY = y,
                         !.currentDirection = direction, !.currentPath = <<>>],
               ErrAlreadyStarted)
    ELSE [t EXCEPT
            !.currentX = x,
            !.currentY = y,
            !.currentDirection = direction,
            !.currentPath = << [ commands      |-> << <<"M", x * GridSize, y * GridSize>> >>,
                                 debugSequence |-> << <<"start", x, y, direction>> >> ] >>]

start(t, x, y, direction) ==
    IF t.thrown # NoError THEN t
    ELSE IF t.currentPath # <<>> THEN Throw(t, ErrAlreadyStarted)
    ELSE [t EXCEPT
            !.currentX = x,
            !.currentY = y,
            !.currentDirection = direction,
            !.currentPath = << [ commands      |-> << <<"M", x * GridSize, y * GridSize>> >>,
                                 debugSequence |-> << <<"start", x, y, direction>> >> ] >>]

forward(t, units) ==
    IF t.thrown # NoError THEN t
    ELSE IF t.currentPath = <<>> THEN Throw(t, ErrNoPathStarted)
    ELSE LET deltaX == _getDirectionDelta(t.currentDirection).x * units
             deltaY == _getDirectionDelta(t.currentDirection).y * units
             newX   == t.currentX + deltaX
             newY   == t.currentY + deltaY
             p      == t.currentPath[1]
         IN [t EXCEPT
               !.currentX = newX,
               !.currentY = newY,
               !.currentPath = << [ commands      |-> Append(p.commands,
                                                         <<"L", newX * GridSize, newY * GridSize>>),
                                    debugSequence |-> Append(p.debugSequence,
                                                         <<"forward", units>>) ] >>]

\* The arc moves one unit in the old heading (the control point) and one unit
\* in the new heading (the end point).
_addArcTransitionOneAxis(t, fromDirection, toDirection) ==
    IF <<fromDirection, toDirection>> \notin ARC_TRANSITIONS THEN Throw(t, ErrNoArc)
    ELSE LET toDelta == _getDirectionDelta(toDirection)
             cx == t.currentX
             cy == t.currentY
             ex == cx + toDelta.x
             ey == cy + toDelta.y
             p  == t.currentPath[1]
         IN [t EXCEPT
               !.currentX = ex,
               !.currentY = ey,
               !.currentPath = << [p EXCEPT !.commands = Append(p.commands,
                     <<"Q", cx * GridSize, cy * GridSize, ex * GridSize, ey * GridSize>>)] >>]

_addArcTransition(t, fromDirection, toDirection) ==
    IF <<fromDirection, toDirection>> \notin ARC_TRANSITIONS THEN Throw(t, ErrNoArc)
    ELSE LET fromDelta == _getDirectionDelta(fromDirection)
             toDelta   == _getDirectionDelta(toDirection)
             cx == t.currentX + fromDelta.x
             cy == t.currentY + fromDelta.y
             ex == cx + toDelta.x
             ey == cy + toDelta.y
             p  == t.currentPath[1]
         IN [t EXCEPT
               !.currentX = ex,
               !.currentY = ey,
               !.currentPath = << [p EXCEPT !.commands = Append(p.commands,
                     <<"Q", cx * GridSize, cy * GridSize, ex * GridSize, ey * GridSize>>)] >>]

PushDebug(t, entry) ==
    [t EXCEPT !.currentPath =
        << [t.currentPath[1] EXCEPT !.debugSequence = Append(@, entry)] >>]

turnLeft(t) ==
    IF t.thrown # NoError THEN t
    ELSE IF t.currentPath = <<>> THEN Throw(t, ErrNoPathStarted)
    ELSE LET newDirection == _turnLeft(t.currentDirection)
             a == _addArcTransition(t, t.currentDirection, newDirection)
         IN IF a.thrown # NoError THEN a
            ELSE PushDebug([a EXCEPT !.currentDirection = newDirection], <<"turnLeft">>)

turnRight(t) ==
    IF t.thrown # NoError THEN t
    ELSE IF t.currentPath = <<>> THEN Throw(t, ErrNoPathStarted)
    ELSE LET newDirection == _turnRight(t.currentDirection)
             a == _addArcTransition(t, t.currentDirection, newDirection)
         IN IF a.thrown # NoError THEN a
            ELSE PushDebug([a EXCEPT !.currentDirection = newDirection], <<"turnRight">>)

\* The <path> element finish appends to the group; data-id is set only for a
\* truthy debugId.
PathElement(currentPath, debugId) ==
    [ tag   |-> "path",
      d     |-> currentPath.commands,
      seq   |-> currentPath.debugSequence,
      class |-> RAIL_TRACK_CLASS,
      id    |-> debugId ]

finish(t, debugId) ==
    IF t.thrown # NoError THEN t
    ELSE IF t.currentPath = <<>> THEN Throw(t, ErrNoPathToFinish)
    ELSE LET pathElement == PathElement(t.currentPath[1], debugId)
         IN [t EXCEPT
               !.group = Append(t.group, pathElement),
               !.paths = Append(t.paths, [element |-> pathElement, data |-> t.currentPath[1]]),
               !.currentPath = <<>>]

clearRails(t) ==
    IF t.thrown # NoError THEN t
    ELSE [t EXCEPT !.group = <<>>, !.paths = <<>>]

getCurrentPosition(t) ==
    [x |-> t.currentX, y |-> t.currentY, direction |-> t.currentDirection]

\* One call of the fluent API, written <<"start", x, y, direction>>,
\* <<"forward", units>>, <<"turnLeft">>, <<"turnRight">> or <<"finish", debugId>>.
invoke(t, c) ==
    CASE c[1] = "start"     -> start(t, c[2], c[3], c[4])
      [] c[1] = "forward"   -> forward(t, c[2])
      [] c[1] = "turnLeft"  -> turnLeft(t)
      [] c[1] = "turnRight" -> turnRight(t)
      [] c[1] = "finish"    -> finish(t, c[2])

\* A chain of calls, trackBuilder.start(..).forward(..). ... .finish(..): each
\* method returns the builder, so the calls act on it in order.
RECURSIVE chain(_, _)
chain(t, calls) ==
    IF calls = <<>> THEN t ELSE chain(invoke(t, calls[1]), Tail(calls))

(***************************************************************************)
(* Expression: the layout combinators. A LayoutBox is a record of its      *)
(* width, height and baseline and of what its render closure captures.     *)
(***************************************************************************)
RECURSIVE SumOf(_, _)
SumOf(seq, field) ==
    IF seq = <<>> THEN 0 ELSE seq[1][field] + SumOf(Tail(seq), field)

\* Math.max(...seq.map(child => child[field])) of a non-empty list.
RECURSIVE MaxOf(_, _)
MaxOf(seq, field) ==
    IF Len(seq) = 1 THEN seq[1][field]
    ELSE LET rest == MaxOf(Tail(seq), field)
         IN IF seq[1][field] >= rest THEN seq[1][field] ELSE rest

\* A text is known by the number of its characters and its class; its bounding
\* box is BBoxPerChar pixels wide per character.
BBoxPerChar == 20

getBBoxWidth(textContent) == BBoxPerChar * textContent

\* Math.ceil(bbox.width / gridSize)
_measureText(textContent, gridSize, className) ==
    (getBBoxWidth(textContent) + gridSize - 1) \div gridSize

textBoxPadTwo(textContent, className) ==
    LET height == 2
        textWidth == _measureText(textContent, GridSize, className)
        width == textWidth + 2
        adjustedWidth == roundUpToEven(width)
    IN [ kind |-> "textBox", width |-> adjustedWidth, height |-> height, baseline |-> 1,
         textContent |-> textContent, className |-> className ]

\* The text box keeping the width it measured, odd or even.
textBoxNoRounding(textContent, className) ==
    LET height == 2
        textWidth == _measureText(textContent, GridSize, className)
        width == textWidth + 3
    IN [ kind |-> "textBox", width |-> width, height |-> height, baseline |-> 1,
         textContent |-> textContent, className |-> className ]

textBox(textContent, className) ==
    LET height == 2
        textWidth == _measureText(textContent, GridSize, className)
        width == textWidth + 3
        adjustedWidth == roundUpToEven(width)
    IN [ kind |-> "textBox", width |-> adjustedWidth, height |-> height, baseline |-> 1,
         textContent |-> textContent, className |-> className ]

sequenceGapOne(children) ==
    LET totalWidth == SumOf(children, "width") + (Len(children) - 1) * 1
        maxHeight == MaxOf(children, "height")
        baseline == MaxOf(children, "baseline")
    IN [ kind |-> "sequence", width |-> totalWidth, height |-> maxHeight,
         baseline |-> baseline, children |-> children ]

\* The sequence adding up the baselines of its children.
sequenceSumBaseline(children) ==
    LET totalWidth == SumOf(children, "width") + (Len(children) - 1) * 2
        maxHeight == MaxOf(children, "height")
        baseline == SumOf(children, "baseline")
    IN [ kind |-> "sequence", width |-> totalWidth, height |-> maxHeight,
         baseline |-> baseline, children |-> children ]

sequence(children) ==
    LET totalWidth == SumOf(children, "width") + (Len(children) - 1) * 2
        maxHeight == MaxOf(children, "height")
        baseline == MaxOf(children, "baseline")
    IN [ kind |-> "sequence", width |-> totalWidth, height |-> maxHeight,
         baseline |-> baseline, children |-> children ]

stackNoExtraRow(children) ==
    LET maxChildWidth == roundUpToEven(MaxOf(children, "width"))
        maxWidth == maxChildWidth + 4
        totalHeight == SumOf(children, "height") + (Len(children) - 1)
        baseline == children[1].baseline
    IN [ kind |-> "stack", width |-> maxWidth, height |-> totalHeight,
         baseline |-> baseline, children |-> children, maxChildWidth |-> maxChildWidth ]

stack(children) ==
    LET maxChildWidth == roundUpToEven(MaxOf(children, "width"))
        maxWidth == maxChildWidth + 4
        totalHeight == SumOf(children, "height") + (Len(children) - 1) + 1
        baseline == children[1].baseline
    IN [ kind |-> "stack", width |-> maxWidth, height |-> totalHeight,
         baseline |-> baseline, children |-> children, maxChildWidth |-> maxChildWidth ]

\* The bypass keeping its child's baseline, as if the rail took no row.
bypassSameBaseline(child) ==
    LET width == roundUpToEven(child.width + 4)
        height == child.height + 1
        baseline == child.baseline
    IN [ kind |-> "bypass", width |-> width, height |-> height,
         baseline |-> baseline, children |-> <<child>> ]

bypass(child) ==
    LET width == roundUpToEven(child.width + 4)
        height == child.height + 1
        baseline == child.baseline + 1
    IN [ kind |-> "bypass", width |-> width, height |-> height,
         baseline |-> baseline, children |-> <<child>> ]

loopSameBaseline(child) ==
    LET width == roundUpToEven(child.width + 4)
        height == child.height + 1
        baseline == child.baseline
    IN [ kind |-> "loop", width |-> width, height |-> height,
         baseline |-> baseline, children |-> <<child>> ]

loop(child) ==
    LET width == roundUpToEven(child.width + 4)
        height == child.height + 1
        baseline == child.baseline + 1
    IN [ kind |-> "loop", width |-> width, height |-> height,
         baseline |-> baseline, children |-> <<child>> ]

\* A LayoutBox written by the library's user (any object with width, height,
\* baseline and render is accepted as a child or as a rule's expression). The
\* render of this one starts a rail with the TrackBuilder it is given and
\* then throws an error of its own, before any finish.
ErrRender == "render failed"

layoutBox(width) ==
    [ kind |-> "custom", width |-> width, height |-> 2, baseline |-> 1,
      children |-> <<>> ]

Children(node) == IF node.kind = "textBox" THEN <<>> ELSE node.children

\* The LayoutBoxes of a tree, and of a list of trees.
RECURSIVE NodeCount(_)
RECURSIVE NodeCountAll(_)
NodeCount(node) == 1 + NodeCountAll(Children(node))
NodeCountAll(nodes) ==
    IF nodes = <<>> THEN 0 ELSE NodeCount(nodes[1]) + NodeCountAll(Tail(nodes))

RECURSIVE SubNodes(_)
SubNodes(node) ==
    {node} \cup UNION { SubNodes(Children(node)[i]) : i \in 1..Len(Children(node)) }

(***************************************************************************)
(* RenderContext and the render closures of the LayoutBoxes.               *)
(***************************************************************************)
\* _cacheCSSProperties: parseInt of the CSS value, or gridSize * 0.9 and
\* gridSize * 0.6, kept here in tenths of a pixel.
_cacheCSSProperties(gridSize) ==
    [terminalRadius |-> gridSize * 9, nonterminalRadius |-> gridSize * 6]

\* Every context drawing with one TrackBuilder kept between renders, instead
\* of a new one per context.
RenderContextSharedBuilder(group, gridSize, showBounds, parentContext) ==
    LET css == IF parentContext # <<>>
               THEN [terminalRadius |-> parentContext[1].terminalRadius,
                     nonterminalRadius |-> parentContext[1].nonterminalRadius]
               ELSE _cacheCSSProperties(gridSize)
    IN [ trackBuilder      |-> [tb EXCEPT !.group = group],
         gridSize          |-> gridSize,
         showBounds        |-> showBounds,
         terminalRadius    |-> css.terminalRadius,
         nonterminalRadius |-> css.nonterminalRadius,
         raised            |-> <<>> ]

\* constructor(group, gridSize, showBounds, parentContext = null); a null
\* parentContext is <<>>, a parent is <<parent>>. The context's group is the
\* group of its TrackBuilder. raised records the TrackBuilder of the context
\* in which an exception propagating through this context was thrown.
RenderContext(group, gridSize, showBounds, parentContext) ==
    LET css == IF parentContext # <<>>
               THEN [terminalRadius |-> parentContext[1].terminalRadius,
                     nonterminalRadius |-> parentContext[1].nonterminalRadius]
               ELSE _cacheCSSProperties(gridSize)
    IN [ trackBuilder      |-> TrackBuilder(group),
         gridSize          |-> gridSize,
         showBounds        |-> showBounds,
         terminalRadius    |-> css.terminalRadius,
         nonterminalRadius |-> css.nonterminalRadius,
         raised            |-> <<>> ]

Thrown(ctx) == ctx.trackBuilder.thrown # NoError

\* The TrackBuilder an exception leaving the render of done's context was
\* thrown with: the one of done's context unless the exception came from
\* further down; <<>> when nothing was thrown.
raisedIn(done) ==
    IF done.trackBuilder.thrown = NoError THEN <<>>
    ELSE IF done.raised # <<>> THEN done.raised
    ELSE <<done.trackBuilder>>

WithTrackBuilder(ctx, t) == [ctx EXCEPT !.trackBuilder = t]

\* group.append(element)
AppendElement(ctx, element) ==
    IF Thrown(ctx) THEN ctx
    ELSE [ctx EXCEPT !.trackBuilder.group = Append(@, element)]

\* The debug attributes renderChild sets when showBounds is enabled.
DebugAttributes(showBounds, box, gridSize) ==
    IF showBounds THEN <<box.width, box.height, box.baseline, gridSize>> ELSE <<>>

\* n / 2 where the code divides an even number.
Half(n) == n \div 2

RECURSIVE render(_, _)
RECURSIVE sequenceForEach(_, _, _, _)
RECURSIVE stackForEach(_, _, _, _)

\* The end of renderChild: done is the child's context after child.render.
\* The child's group was appended before the child rendered into it, and
\* what the child threw propagates to the caller.
attachChild(ctx, child, x, y, done) ==
    [ctx EXCEPT
        !.trackBuilder.group =
            Append(@, [ tag     |-> "g",
                        x       |-> x * ctx.gridSize,
                        y       |-> y * ctx.gridSize,
                        debug   |-> DebugAttributes(ctx.showBounds, child, ctx.gridSize),
                        content |-> done.trackBuilder.group ]),
        !.trackBuilder.thrown = done.trackBuilder.thrown,
        !.raised = raisedIn(done)]

renderChild(ctx, child, x, y) ==
    IF Thrown(ctx) THEN ctx
    ELSE attachChild(ctx, child, x, y,
            render(child, RenderContext(<<>>, ctx.gridSize, ctx.showBounds, <<ctx>>)))

\* The text box starting its right rail without finishing the left one.
renderTextBoxUnfinished(ctx, textContent, className, width) ==
    WithTrackBuilder(ctx,
        chain(ctx.trackBuilder,
              << <<"start", 0, 1, EAST>>, <<"forward", 1>>,
                 <<"start", width - 1, 1, EAST>>, <<"forward", 1>>,
                 <<"finish", <<"textbox-right">> >> >>))

renderTextBox(ctx, textContent, className, width) ==
    LET height == 2
        adjustedWidth == width
        textboxWidth == adjustedWidth - 2
        cornerRadius == IF className = "nonterminal" THEN ctx.nonterminalRadius
                        ELSE ctx.terminalRadius
        rect == [ tag |-> "rect", x |-> 1 * ctx.gridSize, y |-> 0, rx |-> cornerRadius,
                  width |-> textboxWidth * ctx.gridSize, height |-> height * ctx.gridSize,
                  class |-> <<"textbox", className>> ]
        text == [ tag |-> "text", x |-> (1 + Half(textboxWidth)) * ctx.gridSize,
                  y |-> Half(height) * ctx.gridSize, class |-> <<"textbox-text", className>>,
                  text |-> textContent,
                  rule |-> IF className = "nonterminal" THEN <<textContent>> ELSE <<>> ]
    IN AppendElement(
         AppendElement(
           WithTrackBuilder(ctx,
             chain(ctx.trackBuilder,
                   << <<"start", 0, 1, EAST>>, <<"forward", 1>>,
                      <<"finish", <<"textbox-left">> >>,
                      <<"start", adjustedWidth - 1, 1, EAST>>, <<"forward", 1>>,
                      <<"finish", <<"textbox-right">> >> >>)),
           rect),
         text)

\* The rail drawn on the left child's own baseline.
sequenceRailChildBaseline(placed, node, index, currentX) ==
    LET child == node.children[index]
        railStartX == currentX + child.width
        railY == child.baseline
    IN IF index - 1 < Len(node.children) - 1
       THEN WithTrackBuilder(placed,
                chain(placed.trackBuilder,
                      << <<"start", railStartX, railY, EAST>>, <<"forward", 2>>,
                         <<"finish", <<"seq", index - 1>> >> >>))
       ELSE placed

\* After renderChild in sequence's forEach: the 2-unit rail to the next child
\* (except after the last child); placed is the context after renderChild.
sequenceRail(placed, node, index, currentX) ==
    LET child == node.children[index]
        railStartX == currentX + child.width
        railY == node.baseline
    IN IF index - 1 < Len(node.children) - 1
       THEN WithTrackBuilder(placed,
                chain(placed.trackBuilder,
                      << <<"start", railStartX, railY, EAST>>, <<"forward", 2>>,
                         <<"finish", <<"seq", index - 1>> >> >>))
       ELSE placed

\* children.forEach of sequence's render; index counts from 1, so the code's
\* index is index - 1 and currentX is the offset of children[index].
sequenceForEach(ctx, node, index, currentX) ==
    IF index > Len(node.children) \/ Thrown(ctx) THEN ctx
    ELSE sequenceForEach(
            sequenceRail(
                renderChild(ctx, node.children[index], currentX,
                            node.baseline - node.children[index].baseline),
                node, index, currentX),
            node, index + 1, currentX + node.children[index].width + 2)

\* The child centred in maxChildWidth without the left routing margin.
stackChildXNoMargin(node, child) == Half(node.maxChildWidth - child.width)

\* xOffset of a stack child: centred in maxChildWidth, behind a margin of 2.
stackChildX(node, child) == 2 + Half(node.maxChildWidth - child.width)

\* The vertical run of the branching rails without the turn compensation.
stackRailCallsUncompensated(node, index, currentY) ==
    LET child == node.children[index]
        leftConnectionX == 0
        rightConnectionX == node.width
        mainBaseline == node.baseline
        childBaseline == currentY + child.baseline
        childLeftX == stackChildX(node, child)
        childRightX == stackChildX(node, child) + child.width
        verticalDistance == childBaseline - mainBaseline
        horizontalToChild == childLeftX - leftConnectionX
        horizontalFromChild == rightConnectionX - childRightX
        leftId == <<"child", index - 1, "left">>
        rightId == <<"child", index - 1, "right">>
    IN IF index - 1 = 0
       THEN << <<"start", leftConnectionX, mainBaseline, EAST>>,
               <<"forward", childLeftX - leftConnectionX>>,
               <<"finish", leftId>>,
               <<"start", childRightX, childBaseline, EAST>>,
               <<"forward", rightConnectionX - childRightX>>,
               <<"finish", rightId>> >>
       ELSE << <<"start", leftConnectionX, mainBaseline, EAST>>,
               <<"turnRight">>,
               <<"forward", verticalDistance>>,
               <<"turnLeft">>,
               <<"forward", horizontalToChild - 2>>,
               <<"finish", leftId>>,
               <<"start", rightConnectionX, mainBaseline, WEST>>,
               <<"turnLeft">>,
               <<"forward", verticalDistance>>,
               <<"turnRight">>,
               <<"forward", horizontalFromChild - 2>>,
               <<"finish", rightId>> >>

\* The right connection point taken at the right edge of the widest child.
stackRailCallsInnerRight(node, index, currentY) ==
    LET child == node.children[index]
        leftConnectionX == 0
        rightConnectionX == node.maxChildWidth + 2
        mainBaseline == node.baseline
        childBaseline == currentY + child.baseline
        childLeftX == stackChildX(node, child)
        childRightX == stackChildX(node, child) + child.width
        verticalDistance == childBaseline - mainBaseline
        horizontalToChild == childLeftX - leftConnectionX
        horizontalFromChild == rightConnectionX - childRightX
        leftId == <<"child", index - 1, "left">>
        rightId == <<"child", index - 1, "right">>
    IN IF index - 1 = 0
       THEN << <<"start", leftConnectionX, mainBaseline, EAST>>,
               <<"forward", childLeftX - leftConnectionX>>,
               <<"finish", leftId>>,
               <<"start", childRightX, childBaseline, EAST>>,
               <<"forward", rightConnectionX - childRightX>>,
               <<"finish", rightId>> >>
       ELSE << <<"start", leftConnectionX, mainBaseline, EAST>>,
               <<"turnRight">>,
               <<"forward", verticalDistance - 2>>,
               <<"turnLeft">>,
               <<"forward", horizontalToChild - 2>>,
               <<"finish", leftId>>,
               <<"start", rightConnectionX, mainBaseline, WEST>>,
               <<"turnLeft">>,
               <<"forward", verticalDistance - 2>>,
               <<"turnRight">>,
               <<"forward", horizontalFromChild - 2>>,
               <<"finish", rightId>> >>

\* The two rails stack draws for children[index] whose top is at currentY.
stackRailCalls(node, index, currentY) ==
    LET child == node.children[index]
        leftConnectionX == 0
        rightConnectionX == node.width
        mainBaseline == node.baseline
        childBaseline == currentY + child.baseline
        childLeftX == stackChildX(node, child)
        childRightX == stackChildX(node, child) + child.width
        verticalDistance == childBaseline - mainBaseline
        horizontalToChild == childLeftX - leftConnectionX
        horizontalFromChild == rightConnectionX - childRightX
        leftId == <<"child", index - 1, "left">>
        rightId == <<"child", index - 1, "right">>
    IN IF index - 1 = 0
       THEN << <<"start", leftConnectionX, mainBaseline, EAST>>,
               <<"forward", childLeftX - leftConnectionX>>,
               <<"finish", leftId>>,
               <<"start", childRightX, childBaseline, EAST>>,
               <<"forward", rightConnectionX - childRightX>>,
               <<"finish", rightId>> >>
       ELSE << <<"start", leftConnectionX, mainBaseline, EAST>>,
               <<"turnRight">>,
               <<"forward", verticalDistance - 2>>,
               <<"turnLeft">>,
               <<"forward", horizontalToChild - 2>>,
               <<"finish", leftId>>,
               <<"start", rightConnectionX, mainBaseline, WEST>>,
               <<"turnLeft">>,
               <<"forward", verticalDistance - 2>>,
               <<"turnRight">>,
               <<"forward", horizontalFromChild - 2>>,
               <<"finish", rightId>> >>

\* placed is the context after renderChild.
stackRails(placed, node, index, currentY) ==
    WithTrackBuilder(placed,
        chain(placed.trackBuilder, stackRailCalls(node, index, currentY)))

\* children.forEach of stack's render; currentY is the top of children[index].
stackForEach(ctx, node, index, currentY) ==
    IF index > Len(node.children) \/ Thrown(ctx) THEN ctx
    ELSE stackForEach(
            stackRails(
                renderChild(ctx, node.children[index],
                            stackChildX(node, node.children[index]), currentY),
                node, index, currentY),
            node, index + 1, currentY + node.children[index].height + 1)

\* The two 2-unit through paths of bypass and loop.
throughPathCalls(width, mainBaseline) ==
    << <<"start", 0, mainBaseline, EAST>>, <<"forward", 2>>,
       <<"finish", <<"through-path">> >>,
       <<"start", width, mainBaseline, WEST>>, <<"forward", 2>>,
       <<"finish", <<"through-path">> >> >>

bypassPathCallsFullWidth(width, baseline) ==
    << <<"start", 0, baseline, EAST>>,
       <<"turnLeft">>,
       <<"forward", baseline - 2>>,
       <<"turnRight">>,
       <<"forward", width>>,
       <<"turnRight">>,
       <<"forward", baseline - 2>>,
       <<"turnLeft">>,
       <<"finish", <<"bypass-path">> >> >>

bypassPathCalls(width, baseline) ==
    << <<"start", 0, baseline, EAST>>,
       <<"turnLeft">>,
       <<"forward", baseline - 2>>,
       <<"turnRight">>,
       <<"forward", width - 4>>,
       <<"turnRight">>,
       <<"forward", baseline - 2>>,
       <<"turnLeft">>,
       <<"finish", <<"bypass-path">> >> >>

loopPathCallsFromEntry(width, baseline) ==
    << <<"start", 0, baseline, WEST>>,
       <<"turnRight">>,
       <<"forward", baseline - 2>>,
       <<"turnRight">>,
       <<"forward", width - 4>>,
       <<"turnRight">>,
       <<"forward", baseline - 2>>,
       <<"turnRight">>,
       <<"finish", <<"loop-path">> >> >>

\* The loop rail drawn below the main line instead of over the child.
loopPathCallsBelow(width, baseline) ==
    << <<"start", 2, baseline, WEST>>,
       <<"turnLeft">>, <<"forward", baseline - 2>>,
       <<"turnLeft">>, <<"forward", width - 4>>,
       <<"turnLeft">>, <<"forward", baseline - 2>>,
       <<"turnLeft">>,
       <<"finish", <<"loop-path">> >> >>

loopPathCalls(width, baseline) ==
    << <<"start", 2, baseline, WEST>>,
       <<"turnRight">>,
       <<"forward", baseline - 2>>,
       <<"turnRight">>,
       <<"forward", width - 4>>,
       <<"turnRight">>,
       <<"forward", baseline - 2>>,
       <<"turnRight">>,
       <<"finish", <<"loop-path">> >> >>

\* placed is the context after renderChild.
drawRails(placed, calls) ==
    WithTrackBuilder(placed, chain(placed.trackBuilder, calls))

\* The bypass drawing its own rails before it renders its child.
renderBypassRailsFirst(ctx, node) ==
    renderChild(
        drawRails(ctx, bypassPathCalls(node.width, node.baseline)
                          \o throughPathCalls(node.width, node.baseline)),
        node.children[1], Half(node.width - node.children[1].width), 1)

renderBypass(ctx, node) ==
    drawRails(
        renderChild(ctx, node.children[1],
                    Half(node.width - node.children[1].width), 1),
        bypassPathCalls(node.width, node.baseline)
            \o throughPathCalls(node.width, node.baseline))

renderLoop(ctx, node) ==
    drawRails(
        renderChild(ctx, node.children[1],
                    Half(node.width - node.children[1].width), 1),
        loopPathCalls(node.width, node.baseline)
            \o throughPathCalls(node.width, node.baseline))

\* The render of the user's LayoutBox: trackBuilder.start(0, 0, SOUTH)
\* .forward(1), then throw.
renderLayoutBox(ctx, node) ==
    WithTrackBuilder(ctx,
        Throw(chain(ctx.trackBuilder,
                    << <<"start", 0, 0, SOUTH>>, <<"forward", 1>> >>),
              ErrRender))

\* box.render(renderContext)
render(node, ctx) ==
    CASE node.kind = "textBox" ->
            renderTextBox(ctx, node.textContent, node.className, node.width)
      [] node.kind = "sequence" -> sequenceForEach(ctx, node, 1, 0)
      [] node.kind = "stack" -> stackForEach(ctx, node, 1, 0)
      [] node.kind = "bypass" -> renderBypass(ctx, node)
      [] node.kind = "loop" -> renderLoop(ctx, node)
      [] node.kind = "custom" -> renderLayoutBox(ctx, node)

(***************************************************************************)
(* Diagram                                                                 *)
(***************************************************************************)
showGrid == FALSE
showBounds == FALSE

Circle(cx, cy, r, class) ==
    [tag |-> "circle", cx |-> cx, cy |-> cy, r |-> r, class |-> class]

\* Returns the TrackBuilder of the rule group: its group holds the two
\* terminals and the two connecting rails. The radius is gridSize * 0.75.
_renderRuleTerminals(ruleGroup, expression, expressionStartX, baseline) ==
    chain(TrackBuilder(
              ruleGroup \o
              << Circle(0, baseline * GridSize, (GridSize * 3) \div 4, "start-terminal"),
                 Circle((expressionStartX + expression.width + 2) * GridSize,
                        baseline * GridSize, (GridSize * 3) \div 4, "end-terminal") >>),
          << <<"start", 0, baseline, EAST>>, <<"forward", 2>>,
             <<"finish", <<"start-rail">> >>,
             <<"start", expressionStartX + expression.width, baseline, EAST>>,
             <<"forward", 2>>,
             <<"finish", <<"end-rail">> >> >>)

\* The end of _renderRuleExpression: done is the context after expression.render.
attachExpression(ruleGroup, expression, expressionStartX, done) ==
    [ group  |-> Append(ruleGroup,
                    [ tag     |-> "g",
                      x       |-> expressionStartX * GridSize,
                      y       |-> 0,
                      debug   |-> DebugAttributes(showBounds, expression, GridSize),
                      content |-> done.trackBuilder.group ]),
      thrown |-> done.trackBuilder.thrown,
      raised |-> raisedIn(done) ]

\* Returns [group, thrown, raised]: the rule group with the expression group
\* appended.
_renderRuleExpression(ruleGroup, expression, expressionStartX) ==
    attachExpression(ruleGroup, expression, expressionStartX,
        render(expression, RenderContext(<<>>, GridSize, showBounds, <<>>)))

\* terminals is the TrackBuilder _renderRuleTerminals returns; a throw in it
\* skips the expression.
renderRuleContent(terminals, expression, expressionStartX) ==
    IF terminals.thrown # NoError
    THEN [group |-> terminals.group, thrown |-> terminals.thrown,
          raised |-> <<terminals>>]
    ELSE _renderRuleExpression(terminals.group, expression, expressionStartX)

\* The value _renderRule returns, with the rule group it appended to the svg
\* and what was thrown; drawn is the [group, thrown] of the rule's content.
ruleResult(rule, x, currentY, drawn) ==
    [ ruleGroup      |-> [ tag |-> "g", class |-> "rule-group", x |-> x * GridSize,
                           y |-> currentY * GridSize, content |-> drawn.group ],
      totalRuleWidth |-> 2 + rule.expression.width + 2,
      ruleHeight     |-> rule.expression.height,
      thrown         |-> drawn.thrown,
      raised         |-> drawn.raised ]

_renderRuleAbsoluteY(rule, x, currentY) ==
    ruleResult(rule, x, currentY,
        renderRuleContent(
            _renderRuleTerminals(<<>>, rule.expression, 2,
                                 currentY + rule.expression.baseline),
            rule.expression, 2))

\* expressionStartX is 2, expressionBaseline is rule.expression.baseline.
_renderRule(rule, x, currentY) ==
    ruleResult(rule, x, currentY,
        renderRuleContent(
            _renderRuleTerminals(<<>>, rule.expression, 2, rule.expression.baseline),
            rule.expression, 2))

Max(a, b) == IF a >= b THEN a ELSE b

\* One turn of this.rules.forEach in _invalidate: acc is [svg, currentY,
\* maxWidth, thrown], result is what _renderRule returned or threw.
invalidateStep(acc, result) ==
    [ svg       |-> [acc.svg EXCEPT !.children = Append(@, result.ruleGroup)],
      currentY  |-> IF result.thrown # NoError THEN acc.currentY
                    ELSE acc.currentY + result.ruleHeight,
      maxWidth  |-> IF result.thrown # NoError THEN acc.maxWidth
                    ELSE Max(acc.maxWidth, result.totalRuleWidth + 2),
      thrown    |-> result.thrown,
      raised    |-> result.raised ]

RECURSIVE invalidateForEach(_, _, _)
invalidateForEach(diagramRules, index, acc) ==
    IF index > Len(diagramRules) \/ acc.thrown # NoError THEN acc
    ELSE invalidateForEach(diagramRules, index + 1,
            invalidateStep(acc, _renderRule(diagramRules[index], 1, acc.currentY)))

\* The end of _invalidate: the svg is resized; a throw leaves its size as it was.
invalidateResize(acc) ==
    IF acc.thrown # NoError
    THEN [svg |-> acc.svg, thrown |-> acc.thrown, raised |-> acc.raised]
    ELSE [ svg    |-> [acc.svg EXCEPT !.width = acc.maxWidth * GridSize,
                                      !.height = (acc.currentY + 2) * GridSize],
           thrown |-> NoError, raised |-> <<>> ]

_invalidateNoClear(diagramRules, diagramSvg) ==
    invalidateResize(
        invalidateForEach(diagramRules, 1,
            [ svg |-> diagramSvg, currentY |-> 1, maxWidth |-> 0, thrown |-> NoError,
              raised |-> <<>> ]))

\* Returns [svg, thrown, raised]. The svg is emptied, every rule is rendered again and
\* the svg is resized.
_invalidate(diagramRules, diagramSvg) ==
    invalidateResize(
        invalidateForEach(diagramRules, 1,
            [ svg      |-> [diagramSvg EXCEPT !.children = <<>>],
              currentY |-> 1, maxWidth |-> 0, thrown |-> NoError,
              raised |-> <<>> ]))

\* The svg element the constructor creates, before its first _invalidate.
NewSvg == [children |-> <<>>, width |-> 800, height |-> 600]

(***************************************************************************)
(* SpecTrack: a caller drives one TrackBuilder; a call that throws is      *)
(* caught by the caller, which goes on using the same object.              *)
(***************************************************************************)
IsOpen(t) == t.currentPath # <<>>

OpenLen(t) == IF IsOpen(t) THEN Len(t.currentPath[1].commands) ELSE 0

\* The bound on the commands of the open path.
Room(t) == OpenLen(t) < MaxCommands

\* The call returned or threw: the caller sees the object and the message.
Called(call, result) ==
    /\ tb' = [result EXCEPT !.thrown = NoError]
    /\ err' = result.thrown
    /\ lastCall' = call
    /\ wasOpen' = IsOpen(tb)
    /\ UNCHANGED <<operands, rules, svg, page>>

\* The caller clears the rails of a finished path before it starts the next:
\* the builder under test holds one path at a time.
Start(x, y, direction) ==
    /\ IsOpen(tb) \/ tb.paths = <<>>
    /\ Called("start", start(tb, x, y, direction))

Forward(units) ==
    /\ ~IsOpen(tb) \/ Room(tb)
    /\ Called("forward", forward(tb, units))

TurnLeft ==
    /\ ~IsOpen(tb) \/ Room(tb)
    /\ Called("turnLeft", turnLeft(tb))

TurnRight ==
    /\ ~IsOpen(tb) \/ Room(tb)
    /\ Called("turnRight", turnRight(tb))

Finish(debugId) ==
    /\ debugId \in DebugIds
    /\ Called("finish", finish(tb, debugId))

ClearRails ==
    /\ tb.paths # <<>>
    /\ Called("clearRails", clearRails(tb))

NextTrack ==
    \/ \E x \in 0..MaxStart, y \in 0..MaxStart, direction \in Direction :
            Start(x, y, direction)
    \/ \E units \in 0..MaxUnits : Forward(units)
    \/ TurnLeft
    \/ TurnRight
    \/ \E debugId \in DebugIds : Finish(debugId)
    \/ ClearRails

\* The document before the library is used: the expression codes of its
\* script tags, the content of the container made for each tag, what each
\* renderRailroadDiagram threw, the codes handed to eval (in order), and the
\* code of the last direct call of validateExpressionCode.
NewPage ==
    [ scriptTags |-> <<>>, containers |-> <<>>, thrown |-> <<>>,
      evaluated |-> <<>>, code |-> <<>> ]

Init ==
    /\ tb = TrackBuilder(<<>>)
    /\ lastCall = "new"
    /\ err = NoError
    /\ wasOpen = FALSE
    /\ operands = <<>>
    /\ rules = <<>>
    /\ svg = _invalidate(<<>>, NewSvg).svg
    /\ page = NewPage

SpecTrack == Init /\ [][NextTrack]_vars

(***************************************************************************)
(* Spec: expression code is evaluated innermost call first, each call       *)
(* taking its arguments from the end of the operand list; a finished        *)
(* expression is added to the Diagram as a rule.                            *)
(***************************************************************************)
\* The texts of the expression code: 0..MaxTextLen characters, literals of
\* even length and rule references of odd length.
Texts ==
    { [textContent |-> n,
       className   |-> IF n % 2 = 0 THEN "terminal" ELSE "nonterminal"] :
      n \in 0..MaxTextLen }

Alive == NodeCountAll(operands) + NodeCountAll([i \in 1..Len(rules) |-> rules[i].expression])

Evaluated(call, result, arity) ==
    /\ operands' = Append(SubSeq(operands, 1, Len(operands) - arity), result)
    /\ lastCall' = call
    /\ err' = NoError
    /\ UNCHANGED <<tb, wasOpen, rules, svg, page>>

LastOperands(k) == SubSeq(operands, Len(operands) - k + 1, Len(operands))

TextBox(text) ==
    /\ Alive < MaxNodes
    /\ Evaluated("textBox", textBox(text.textContent, text.className), 0)

Sequence(k) ==
    /\ Alive < MaxNodes
    /\ Evaluated("sequence", sequence(LastOperands(k)), k)

Stack(k) ==
    /\ Alive < MaxNodes
    /\ Evaluated("stack", stack(LastOperands(k)), k)

Bypass ==
    /\ Alive < MaxNodes
    /\ operands # <<>>
    /\ Evaluated("bypass", bypass(operands[Len(operands)]), 1)

Loop ==
    /\ Alive < MaxNodes
    /\ operands # <<>>
    /\ Evaluated("loop", loop(operands[Len(operands)]), 1)

\* done is the [svg, thrown] of _invalidate.
Invalidated(done) ==
    /\ svg' = done.svg
    /\ err' = done.thrown

\* diagram.addRule(title, expression) with the value of a whole expression:
\* the rule is pushed, then every rule is rendered again.
AddRule(title) ==
    /\ Len(operands) = 1
    /\ Len(rules) < MaxRules
    /\ rules' = Append(rules, [title |-> title, expression |-> operands[1]])
    /\ Invalidated(_invalidate(rules', svg))
    /\ operands' = <<>>
    /\ lastCall' = "addRule"
    /\ UNCHANGED <<tb, wasOpen, page>>

Next ==
    \/ \E text \in Texts : TextBox(text)
    \/ \E k \in 1..Len(operands) : Sequence(k)
    \/ \E k \in 1..Len(operands) : Stack(k)
    \/ Bypass
    \/ Loop
    \/ AddRule("rule")

Spec == Init /\ [][Next]_vars

(***************************************************************************)
(* Properties of the TrackBuilder (SpecTrack).                             *)
(***************************************************************************)

\* C2: start fails when a path is already open; forward, turnLeft, turnRight
\* and finish each fail when no path is open (before any start, or after
\* finish and before the next start).
C2_OutOfSequenceCallsFail ==
    /\ (lastCall = "start" /\ wasOpen) => err = ErrAlreadyStarted
    /\ (lastCall \in {"forward", "turnLeft", "turnRight"} /\ ~wasOpen)
            => err = ErrNoPathStarted
    /\ (lastCall = "finish" /\ ~wasOpen) => err = ErrNoPathToFinish

\* forward was called after a finish and before the next start, and threw.
C2_Witness ==
    /\ lastCall = "forward"
    /\ ~wasOpen
    /\ tb.paths # <<>>
    /\ err = ErrNoPathStarted

\* A two-turn connector: start heading east or west, a turn, a vertical run,
\* the opposite turn, a horizontal run.
IsTwoTurnConnector(seq) ==
    /\ Len(seq) = 5
    /\ seq[1][1] = "start" /\ seq[1][4] \in {EAST, WEST}
    /\ seq[2][1] \in {"turnLeft", "turnRight"}
    /\ seq[3][1] = "forward"
    /\ seq[4][1] \in {"turnLeft", "turnRight"} /\ seq[4][1] # seq[2][1]
    /\ seq[5][1] = "forward"

\* The side the connector runs to: east or west of the start as it was
\* started, south (+1) or north (-1) of it by the hand of the first turn.
ConnectorSignX(seq) == IF seq[1][4] = EAST THEN 1 ELSE -1

ConnectorSignY(seq) ==
    IF (seq[1][4] = EAST /\ seq[2][1] = "turnRight")
       \/ (seq[1][4] = WEST /\ seq[2][1] = "turnLeft")
    THEN 1 ELSE -1

\* C3: turn compensation law. A two-turn connector of vertical distance d and
\* horizontal distance h (d, h >= 2), drawn as turn, forward(d-2), opposite
\* turn, forward(h-2), leaves the cursor exactly h units beside and d units
\* above or below the start point, and the last segment ends there.
C3_TurnCompensation ==
    (IsOpen(tb) /\ IsTwoTurnConnector(tb.currentPath[1].debugSequence)) =>
        LET seq == tb.currentPath[1].debugSequence
            cmd == tb.currentPath[1].commands
            d == seq[3][2] + 2
            h == seq[5][2] + 2
            endX == seq[1][2] + ConnectorSignX(seq) * h
            endY == seq[1][3] + ConnectorSignY(seq) * d
        IN /\ tb.currentX = endX
           /\ tb.currentY = endY
           /\ cmd[Len(cmd)] = <<"L", endX * GridSize, endY * GridSize>>

\* A connector with d = 3 and h = 4 has been drawn.
C3_Witness ==
    /\ IsOpen(tb)
    /\ IsTwoTurnConnector(tb.currentPath[1].debugSequence)
    /\ tb.currentPath[1].debugSequence[3][2] = 1
    /\ tb.currentPath[1].debugSequence[5][2] = 2

(***************************************************************************)
(* Properties of the layout combinators and of rendering (Spec).           *)
(***************************************************************************)
\* Every LayoutBox alive: the operands, the rules' expressions, their subtrees.
AllNodes ==
    UNION { SubNodes(operands[i]) : i \in 1..Len(operands) }
    \cup UNION { SubNodes(rules[k].expression) : k \in 1..Len(rules) }

NodesOfKind(kinds) == { n \in AllNodes : n.kind \in kinds }

\* The next even number at or above v.
EvenRoundUp(v) == CHOOSE m \in {v, v + 1} : m % 2 = 0

\* The greatest of the values of field among the children.
Greatest(children, field) ==
    CHOOSE m \in { children[i][field] : i \in 1..Len(children) } :
        \A i \in 1..Len(children) : children[i][field] <= m

\* The sum of the values of field among the first n children.
RECURSIVE Total(_, _, _)
Total(children, field, n) ==
    IF n = 0 THEN 0 ELSE children[n][field] + Total(children, field, n - 1)

\* C1: every LayoutBox produced by textBox, sequence, stack, bypass or loop
\* has an even width.
C1_EvenWidth == \A n \in AllNodes : n.width % 2 = 0

\* A stack of two children of different widths stands over a text whose
\* padded width (measured width + 3) is odd, so that it had to be rounded.
C1_Witness ==
    \E n \in NodesOfKind({"stack"}) :
        /\ Len(n.children) = 2
        /\ n.children[1].width # n.children[2].width
        /\ \E t \in SubNodes(n) :
              /\ t.kind = "textBox"
              /\ (_measureText(t.textContent, GridSize, t.className) + 3) % 2 = 1

\* C6: textBox produces width = (measured width + 3) rounded up to the next
\* even number, height 2 and baseline 1; measured width 4 gives width 8.
C6_TextBoxLayout ==
    \A n \in NodesOfKind({"textBox"}) :
        /\ n.width = EvenRoundUp(_measureText(n.textContent, GridSize, n.className) + 3)
        /\ n.height = 2
        /\ n.baseline = 1
        /\ _measureText(n.textContent, GridSize, n.className) = 4 => n.width = 8

\* A text of measured width 4 has been boxed.
C6_Witness ==
    \E n \in NodesOfKind({"textBox"}) :
        _measureText(n.textContent, GridSize, n.className) = 4

C8_StackLayout ==
    \A n \in NodesOfKind({"stack"}) :
        /\ n.width = EvenRoundUp(Greatest(n.children, "width")) + 4
        /\ n.height = Total(n.children, "height", Len(n.children))
                         + (Len(n.children) - 1) + 1
        /\ n.baseline = n.children[1].baseline
        /\ (Len(n.children) = 2 /\ \A i \in 1..2 : n.children[i].height = 2)
              => n.height = 6

\* A stack of two children of height 2 and of different widths.
C8_Witness ==
    \E n \in NodesOfKind({"stack"}) :
        /\ Len(n.children) = 2
        /\ \A i \in 1..2 : n.children[i].height = 2
        /\ n.children[1].width # n.children[2].width
        /\ n.height = 6

\* C9: bypass(child) produces width = (child.width + 4) rounded up to even,
\* height = child.height + 1 and baseline = child.baseline + 1, and
\* loop(child) produces the same width, height and baseline as bypass(child).
C9_BypassLoopLayout ==
    /\ \A n \in NodesOfKind({"bypass"}) :
          /\ n.width = EvenRoundUp(n.children[1].width + 4)
          /\ n.height = n.children[1].height + 1
          /\ n.baseline = n.children[1].baseline + 1
    /\ \A n \in NodesOfKind({"loop"}) :
          /\ n.width = bypass(n.children[1]).width
          /\ n.height = bypass(n.children[1]).height
          /\ n.baseline = bypass(n.children[1]).baseline

\* A loop and a bypass of the same child.
C9_Witness ==
    \E l \in NodesOfKind({"loop"}), b \in NodesOfKind({"bypass"}) :
        l.children = b.children /\ l.baseline = l.children[1].baseline + 1

IsGroup(element) == element.tag = "g"

IsPath(element) == element.tag = "path"

\* The child groups and the rails of a rendered group, in document order.
Groups(content) == SelectSeq(content, IsGroup)

Paths(content) == SelectSeq(content, IsPath)

\* The pairs of a node of the tree and the content of the group it was
\* rendered into: the i-th child group of a node's group is its i-th child's.
RECURSIVE Rendered(_, _)
Rendered(node, content) ==
    {[node |-> node, content |-> content]}
    \cup UNION { Rendered(Children(node)[i], Groups(content)[i].content) :
                    i \in 1..Len(Children(node)) }

\* Every rendered node of the diagram; the expression's group is the only
\* group in its rule's group.
AllRendered ==
    UNION { Rendered(rules[k].expression, Groups(svg.children[k].content)[1].content) :
               k \in 1..Len(rules) }

RenderedOfKind(kind) == { r \in AllRendered : r.node.kind = kind }

\* The first and the last point of a path, in pixels.
PathStart(d) == <<d[1][2], d[1][3]>>

PathEnd(d) ==
    IF d[Len(d)][1] = "Q" THEN <<d[Len(d)][4], d[Len(d)][5]>>
    ELSE <<d[Len(d)][2], d[Len(d)][3]>>

\* The junctions of a rendered sequence: child i stands with its baseline on
\* line, the first child at the left edge and the last child ending at the
\* right edge, and the only rail after child i < n runs 2 units along line
\* from child i's right edge to child i + 1's left edge.
SequenceJoined(node, groups, rails, line) ==
    /\ Len(groups) = Len(node.children)
    /\ Len(rails) = Len(node.children) - 1
    /\ groups[1].x = 0
    /\ groups[Len(groups)].x + node.children[Len(groups)].width * GridSize
          = node.width * GridSize
    /\ \A i \in 1..Len(groups) :
          groups[i].y + node.children[i].baseline * GridSize = line
    /\ \A i \in 1..Len(rails) :
          /\ rails[i].d = << <<"M", groups[i].x + node.children[i].width * GridSize, line>>,
                             <<"L", groups[i + 1].x, line>> >>
          /\ groups[i + 1].x - (groups[i].x + node.children[i].width * GridSize)
                = 2 * GridSize

StackRailsMeet(node, rails, left, right) ==
    /\ Len(rails) = 2 * Len(node.children)
    /\ \A i \in 1..Len(node.children) :
          /\ rails[2 * i - 1].id = <<"child", i - 1, "left">>
          /\ rails[2 * i].id = <<"child", i - 1, "right">>
          /\ PathStart(rails[2 * i - 1].d) = left
          /\ i = 1 => PathEnd(rails[2 * i].d) = right
          /\ i > 1 => PathStart(rails[2 * i].d) = right

\* C5: in a rendered stack, for every child index, the outer endpoint of the
\* left rail is (0, baseline) and the outer endpoint of the right rail is
\* (width, baseline).
C5_StackEndpointSymmetry ==
    \A r \in RenderedOfKind("stack") :
        StackRailsMeet(r.node, Paths(r.content),
                       <<0, r.node.baseline * GridSize>>,
                       <<r.node.width * GridSize, r.node.baseline * GridSize>>)

\* A rendered stack of three children, not all of the same width.
C5_Witness ==
    \E r \in RenderedOfKind("stack") :
        /\ Len(r.node.children) = 3
        /\ r.node.children[1].width # r.node.children[2].width
        /\ Len(Paths(r.content)) = 6

RotatedLeft ==
    [d \in Direction |-> CASE d = NORTH -> WEST [] d = WEST -> SOUTH
                           [] d = SOUTH -> EAST [] d = EAST -> NORTH]

RotatedRight ==
    [d \in Direction |-> CASE d = NORTH -> EAST [] d = EAST -> SOUTH
                           [] d = SOUTH -> WEST [] d = WEST -> NORTH]

StepX == [d \in Direction |-> CASE d = EAST -> 1 [] d = WEST -> -1 [] OTHER -> 0]

StepY == [d \in Direction |-> CASE d = SOUTH -> 1 [] d = NORTH -> -1 [] OTHER -> 0]

\* A step of the builder from before to after is a quarter turn from heading
\* old to heading new: the cursor goes one unit along old and one along new,
\* and one arc is appended whose control point is the corner and whose end
\* point is the new cursor.
QuarterTurn(before, after, old, new) ==
    /\ after.currentDirection = new
    /\ after.currentX = before.currentX + StepX[old] + StepX[new]
    /\ after.currentY = before.currentY + StepY[old] + StepY[new]
    /\ IsOpen(after)
    /\ after.currentPath[1].commands =
          Append(before.currentPath[1].commands,
                 << "Q",
                    (before.currentX + StepX[old]) * GridSize,
                    (before.currentY + StepY[old]) * GridSize,
                    after.currentX * GridSize,
                    after.currentY * GridSize >>)
    /\ after.paths = before.paths

RECURSIVE Turns(_, _)
Turns(d, n) ==
    IF n = 0 THEN 0 ELSE (IF d[n][1] = "Q" THEN 1 ELSE 0) + Turns(d, n - 1)

\* The branching rails of child i >= 2 of a rendered stack, whose group is g:
\* the left rail goes from the left entry down and east to the child's left
\* edge on the child's baseline row, the right rail from the right entry down
\* and west to the child's right edge on the same row, each with two turns
\* and runs shortened by 2.
BranchReachesChild(node, child, g, left, right) ==
    /\ PathEnd(left.d) = <<g.x, g.y + child.baseline * GridSize>>
    /\ PathEnd(right.d) = <<g.x + child.width * GridSize, g.y + child.baseline * GridSize>>
    /\ Turns(left.d, Len(left.d)) = 2
    /\ Turns(right.d, Len(right.d)) = 2
    /\ left.seq = << <<"start", 0, node.baseline, EAST>>,
                     <<"turnRight">>,
                     <<"forward", (g.y \div GridSize) + child.baseline - node.baseline - 2>>,
                     <<"turnLeft">>,
                     <<"forward", (g.x \div GridSize) - 2>> >>
    /\ right.seq = << <<"start", node.width, node.baseline, WEST>>,
                      <<"turnLeft">>,
                      <<"forward", (g.y \div GridSize) + child.baseline - node.baseline - 2>>,
                      <<"turnRight">>,
                      <<"forward", node.width - ((g.x \div GridSize) + child.width) - 2>> >>

\* C18: for every stack child with index >= 1 the left rail (start east, turn
\* right, forward verticalDistance - 2, turn left, forward horizontalToChild
\* - 2) ends at the child's left edge on the child's baseline row and the
\* right rail (start west, turn left, forward verticalDistance - 2, turn
\* right, forward horizontalFromChild - 2) ends at the child's right edge on
\* the same row; each rail has exactly two turns.
C18_StackBranchRails ==
    \A r \in RenderedOfKind("stack") :
        \A i \in 2..Len(r.node.children) :
            BranchReachesChild(r.node, r.node.children[i], Groups(r.content)[i],
                               Paths(r.content)[2 * i - 1], Paths(r.content)[2 * i])

\* A rendered stack of three children, the second narrower than the first
\* and the third: its branching rails have runs of more than 0 units.
C18_Witness ==
    \E r \in RenderedOfKind("stack") :
        /\ Len(r.node.children) = 3
        /\ r.node.children[2].width < r.node.children[1].width
        /\ r.node.children[2].width < r.node.children[3].width
        /\ Paths(r.content)[3].seq[5][2] > 0
        /\ Paths(r.content)[6].seq[3][2] > 0

\* The rectangular rail over the child of a bypass or loop of width w and
\* baseline b, in pixels, as drawn from (x0, b) to the other side.
BypassShape(w, b) ==
    << <<"M", 0, b * GridSize>>,
       <<"Q", 1 * GridSize, b * GridSize, 1 * GridSize, (b - 1) * GridSize>>,
       <<"L", 1 * GridSize, 1 * GridSize>>,
       <<"Q", 1 * GridSize, 0, 2 * GridSize, 0>>,
       <<"L", (w - 2) * GridSize, 0>>,
       <<"Q", (w - 1) * GridSize, 0, (w - 1) * GridSize, 1 * GridSize>>,
       <<"L", (w - 1) * GridSize, (b - 1) * GridSize>>,
       <<"Q", (w - 1) * GridSize, b * GridSize, w * GridSize, b * GridSize>> >>

\* C19: the bypass path of bypass(child) starts at the left entry point
\* (0, baseline), rises to y = 0, runs width - 4 units along the top from
\* x = 2 to x = width - 2, descends and ends at the right exit point
\* (width, baseline) heading east; the through paths leave the same two
\* points.
C19_BypassPath ==
    \A r \in RenderedOfKind("bypass") :
        /\ Len(Paths(r.content)) = 3
        /\ Paths(r.content)[1].id = <<"bypass-path">>
        /\ Paths(r.content)[1].d = BypassShape(r.node.width, r.node.baseline)
        /\ PathStart(Paths(r.content)[1].d) = PathStart(Paths(r.content)[2].d)
        /\ PathEnd(Paths(r.content)[1].d) = PathStart(Paths(r.content)[3].d)
        /\ PathEnd(Paths(r.content)[1].d)
              = <<r.node.width * GridSize, r.node.baseline * GridSize>>

\* A rendered bypass of a child deeper than a text box.
C19_Witness ==
    \E r \in RenderedOfKind("bypass") :
        /\ r.node.children[1].baseline > 1
        /\ Len(Paths(r.content)) = 3

\* The loop rail of a rendered loop whose child group is g, with the two
\* through paths: it starts heading west at the child's left edge where the
\* left through path ends, passes over the child along y = 0 and ends at the
\* child's right edge where the right through path ends.
LoopJoinsMainLine(node, child, g, rail, throughLeft, throughRight) ==
    /\ rail.id = <<"loop-path">>
    /\ rail.seq[1] = <<"start", 2, node.baseline, WEST>>
    /\ PathStart(rail.d) = <<g.x, node.baseline * GridSize>>
    /\ PathStart(rail.d) = <<2 * GridSize, node.baseline * GridSize>>
    /\ PathStart(rail.d) = PathEnd(throughLeft.d)
    /\ rail.d[4] = <<"Q", 1 * GridSize, 0, 2 * GridSize, 0>>
    /\ rail.d[5] = <<"L", (node.width - 2) * GridSize, 0>>
    /\ PathEnd(rail.d) = <<g.x + child.width * GridSize, node.baseline * GridSize>>
    /\ PathEnd(rail.d) = <<(node.width - 2) * GridSize, node.baseline * GridSize>>
    /\ PathEnd(rail.d) = PathEnd(throughRight.d)
    /\ PathStart(throughLeft.d) = <<0, node.baseline * GridSize>>
    /\ PathStart(throughRight.d) = <<node.width * GridSize, node.baseline * GridSize>>

CommandEnd(c) == IF c[1] = "Q" THEN <<c[4], c[5]>> ELSE <<c[2], c[3]>>

\* The points that span the k-th piece of a path (k >= 2): the ends of a
\* straight piece, the ends and the corner of an arc. The piece lies in their
\* convex hull.
PiecePoints(d, k) ==
    {CommandEnd(d[k - 1]), CommandEnd(d[k])}
    \cup (IF d[k][1] = "Q" THEN {<<d[k][2], d[k][3]>>} ELSE {})

\* The points lie in the box of the given width and height (grid units).
WithinBox(points, width, height) ==
    \A q \in points : /\ 0 <= q[1] /\ q[1] <= width * GridSize
                      /\ 0 <= q[2] /\ q[2] <= height * GridSize

\* The points lie on one side of the open box of child, placed by group g.
OutsideChild(points, g, child) ==
    \/ \A q \in points : q[1] <= g.x
    \/ \A q \in points : q[1] >= g.x + child.width * GridSize
    \/ \A q \in points : q[2] <= g.y
    \/ \A q \in points : q[2] >= g.y + child.height * GridSize

\* Every piece of the rail d of a node is within the node's box and outside
\* the interior of each child's box.
RailKeepsClear(node, groups, d) ==
    \A k \in 2..Len(d) :
        /\ WithinBox(PiecePoints(d, k), node.width, node.height)
        /\ \A i \in 1..Len(groups) :
              OutsideChild(PiecePoints(d, k), groups[i], Children(node)[i])

\* C16: every rail drawn by the render of a textBox, sequence, stack, bypass
\* or loop stays within that node's box, 0 <= x <= width and 0 <= y <=
\* height, and does not pass through the interior of any of its children's
\* boxes.
C16_RailsWithinBox ==
    \A r \in AllRendered :
        \A j \in 1..Len(Paths(r.content)) :
            RailKeepsClear(r.node, Groups(r.content), Paths(r.content)[j].d)

\* A rendered stack of three children of which the first is the narrowest,
\* so that the branching rails run down beside it.
C16_Witness ==
    \E r \in RenderedOfKind("stack") :
        /\ Len(r.node.children) = 3
        /\ r.node.children[1].width < r.node.children[2].width
        /\ Len(Paths(r.content)) = 6
        /\ Len(Paths(r.content)[5].d) = 5

(***************************************************************************)
(* Expression code.  A code is known by its syntax tree: a call            *)
(* [fn, args], a string literal [str] or a code behind a block comment     *)
(* [comment, code].  Its text is a sequence of tokens: a token is a run of *)
(* word characters or one of the Punctuation.  JavaScript evaluates the    *)
(* tree, validateExpressionCode reads the text.                            *)
(***************************************************************************)
Punctuation == {"(", ")", ",", " ", "\"", "//", "/*", "*/", ":", ".", "\n"}

Whitespace == {" ", "\n"}

\* \w+ between two \b
IsWord(token) == token \notin Punctuation

RECURSIVE SourceText(_)
RECURSIVE SourceTextOfArgs(_, _)
\* The text the author of a script tag writes for a tree.
SourceText(code) ==
    IF "str" \in DOMAIN code THEN <<"\"">> \o code.str \o <<"\"">>
    ELSE IF "comment" \in DOMAIN code
    THEN <<"/*">> \o code.comment \o <<"*/", " ">> \o SourceText(code.code)
    ELSE <<code.fn, "(">> \o SourceTextOfArgs(code.args, 1) \o <<")">>

SourceTextOfArgs(args, i) ==
    IF i > Len(args) THEN <<>>
    ELSE SourceText(args[i])
         \o (IF i < Len(args) THEN <<",", " ">> ELSE <<>>)
         \o SourceTextOfArgs(args, i + 1)

\* The index of the first token from i on that is in tokens, or 0.
RECURSIVE IndexOf(_, _, _)
IndexOf(text, tokens, i) ==
    IF i > Len(text) THEN 0
    ELSE IF text[i] \in tokens THEN i
    ELSE IndexOf(text, tokens, i + 1)

\* code.replace(/\/\*[\s\S]*?\*\//g, ''), scanning from token i.
RECURSIVE StripBlockComments(_, _)
StripBlockComments(text, i) ==
    IF i > Len(text) THEN <<>>
    ELSE IF text[i] = "/*" /\ IndexOf(text, {"*/"}, i + 1) # 0
    THEN StripBlockComments(text, IndexOf(text, {"*/"}, i + 1) + 1)
    ELSE <<text[i]>> \o StripBlockComments(text, i + 1)

\* .replace(/\/\/.*$/gm, ''): from // to the end of its line.
RECURSIVE StripLineComments(_, _)
StripLineComments(text, i) ==
    IF i > Len(text) THEN <<>>
    ELSE IF text[i] = "//"
    THEN (IF IndexOf(text, {"\n"}, i + 1) = 0 THEN <<>>
          ELSE StripLineComments(text, IndexOf(text, {"\n"}, i + 1)))
    ELSE <<text[i]>> \o StripLineComments(text, i + 1)

\* .trim()
RECURSIVE Trim(_)
Trim(text) ==
    IF text = <<>> THEN text
    ELSE IF text[1] \in Whitespace THEN Trim(Tail(text))
    ELSE IF text[Len(text)] \in Whitespace THEN Trim(SubSeq(text, 1, Len(text) - 1))
    ELSE text

\* Whether /\b(\w+)\s*\(/ matches at token i: a word, then white space, then
\* an opening parenthesis.
RECURSIVE OpensAfter(_, _)
OpensAfter(text, j) ==
    IF j > Len(text) THEN FALSE
    ELSE IF text[j] = "(" THEN TRUE
    ELSE IF text[j] \in Whitespace THEN OpensAfter(text, j + 1)
    ELSE FALSE

IsCallAt(text, i) == IsWord(text[i]) /\ OpensAfter(text, i + 1)

allowedFunctions == {"textBox", "sequence", "stack", "bypass", "loop"}

ErrDisallowedFunction == "Disallowed function call"
ErrDisallowedPattern == "Expression contains disallowed pattern"

\* The words that end in "javascript" and in "data" (those patterns have no \b).
EndsInJavascript == {"javascript"}

EndsInData == {"data", "metadata"}

\* dangerousPatterns.some(pattern => pattern.test(cleanCode))
dangerousPatterns(text) ==
    \E i \in 1..Len(text) :
        \/ /\ text[i] \in {"eval", "Function", "setTimeout", "setInterval",
                           "fetch", "XMLHttpRequest", "alert"}
           /\ OpensAfter(text, i + 1)
        \/ /\ text[i] \in {"document", "window", "location", "console"}
           /\ i < Len(text) /\ text[i + 1] = "."
        \/ /\ text[i] \in EndsInJavascript \cup EndsInData
           /\ i < Len(text) /\ text[i + 1] = ":"

\* The checks of validateExpressionCode on cleanCode.
validateCleanCode(cleanCode) ==
    IF \E i \in 1..Len(cleanCode) :
          IsCallAt(cleanCode, i) /\ cleanCode[i] \notin allowedFunctions
    THEN ErrDisallowedFunction
    ELSE IF dangerousPatterns(cleanCode) THEN ErrDisallowedPattern
    ELSE NoError

\* validateExpressionCode(code) on the text of a code: what it throws, or
\* NoError when it returns true.
validateExpressionCode(text) ==
    validateCleanCode(Trim(StripLineComments(StripBlockComments(text, 1), 1)))

(***************************************************************************)
(* Evaluation of expression code and the rendering of script tags.         *)
(***************************************************************************)
\* What the eval of a code throws that calls a function the evaluation
\* scope does not define (a ReferenceError), or that hands text which is
\* not a program to the global eval.
ErrEvaluation == "evaluation error"

\* The number of characters of a token and of a text.
TokenLength(token) ==
    CASE token \in {"(", ")", ",", " ", "\"", ":", ".", "\n"} -> 1
      [] token \in {"//", "/*", "*/"} -> 2
      [] token \in {"host", "eval", "code", "test"} -> 4
      [] token = "terminal" -> 8
      [] token = "nonterminal" -> 11
      [] token = "MultiLineString" -> 15
      [] OTHER -> 6

RECURSIVE TextLength(_)
TextLength(text) ==
    IF text = <<>> THEN 0 ELSE TokenLength(text[1]) + TextLength(Tail(text))

\* className as textBox receives it: the text of the second argument.
ClassNameOf(text) == IF text = <<"nonterminal">> THEN "nonterminal" ELSE "terminal"

\* The call of one of the five functions the eval scope binds to Expression.
applyExpression(fn, values) ==
    CASE fn = "textBox"  -> textBox(TextLength(values[1]), ClassNameOf(values[2]))
      [] fn = "sequence" -> sequence(values)
      [] fn = "stack"    -> stack(values)
      [] fn = "bypass"   -> bypass(values[1])
      [] fn = "loop"     -> loop(values[1])

RECURSIVE evaluate(_)
RECURSIVE evaluateArgs(_, _, _)
\* After the arguments: values is [values, thrown].
evaluateCall(fn, args) ==
    IF args.thrown # NoError THEN [value |-> <<>>, thrown |-> args.thrown]
    ELSE [value |-> applyExpression(fn, args.values), thrown |-> NoError]

\* The value of a code in the scope renderRailroadDiagram evaluates it in,
\* [value, thrown]: a LayoutBox, or the text of a string literal.
evaluate(code) ==
    IF "str" \in DOMAIN code THEN [value |-> code.str, thrown |-> NoError]
    ELSE IF "comment" \in DOMAIN code THEN evaluate(code.code)
    ELSE IF code.fn \notin allowedFunctions
    THEN [value |-> <<>>, thrown |-> ErrEvaluation]
    ELSE evaluateCall(code.fn, evaluateArgs(code.args, 1, <<>>))

evaluateNext(args, i, values, value) ==
    IF value.thrown # NoError THEN [values |-> values, thrown |-> value.thrown]
    ELSE evaluateArgs(args, i + 1, Append(values, value.value))

evaluateArgs(args, i, values) ==
    IF i > Len(args) THEN [values |-> values, thrown |-> NoError]
    ELSE evaluateNext(args, i, values, evaluate(args[i]))

\* container.innerHTML = `<div class="error">Error: ${error.message}</div>`
ErrorDiv(message) == <<[tag |-> "div", class |-> "error", message |-> message]>>

\* What renderRailroadDiagram leaves: the content of the container, what it
\* threw and whether it handed the code to eval.
Outcome(container, thrown, evaluated) ==
    [ container |-> IF thrown # NoError THEN ErrorDiv(thrown) ELSE container,
      thrown    |-> thrown,
      evaluated |-> evaluated ]

\* diagram.addRule(ruleName, expression) on the new Diagram; done is the
\* [svg, thrown] of its _invalidate.
ruleAdded(done) == Outcome(<<done.svg>>, done.thrown, TRUE)

\* After the eval: value is [value, thrown].
expressionEvaluated(config, value) ==
    IF value.thrown # NoError THEN Outcome(<<>>, value.thrown, TRUE)
    ELSE ruleAdded(_invalidate(<<[title |-> config.ruleName, expression |-> value.value]>>,
                               _invalidate(<<>>, NewSvg).svg))

\* The renderRailroadDiagram of the first library definition in diagram.js:
\* the code is validated, then a Diagram is made, the code evaluated and the
\* rule added; an error is shown in the container and thrown again.
renderRailroadDiagramValidating(config) ==
    IF validateExpressionCode(SourceText(config.expressionCode)) # NoError
    THEN Outcome(<<>>, validateExpressionCode(SourceText(config.expressionCode)), FALSE)
    ELSE expressionEvaluated(config, evaluate(config.expressionCode))

\* The renderRailroadDiagram of the second library definition in diagram.js.
renderRailroadDiagramStandalone(config) ==
    expressionEvaluated(config, evaluate(config.expressionCode))

\* global.RailroadDiagrams = {...} is executed twice as diagram.js loads, by
\* the first and then by the second definition of the library: the global
\* object holds the functions of the last assignment.
globalAssignments == <<"first", "second">>

RailroadDiagrams == globalAssignments[Len(globalAssignments)]

\* RailroadDiagrams.renderRailroadDiagram(config); renderDiagramScripts calls
\* the renderRailroadDiagram of its own definition.
renderRailroadDiagram(config) ==
    IF RailroadDiagrams = "first" THEN renderRailroadDiagramValidating(config)
    ELSE renderRailroadDiagramStandalone(config)

\* The end of one turn of scriptTags.forEach in doRender: the container was
\* appended, outcome is what renderRailroadDiagram left; what it threw is
\* caught and logged.
scriptTagRendered(acc, code, outcome) ==
    [acc EXCEPT
        !.containers = Append(@, outcome.container),
        !.thrown     = Append(@, outcome.thrown),
        !.evaluated  = IF outcome.evaluated THEN Append(@, code) ELSE @]

\* The forEach without the try and catch around renderRailroadDiagram: the
\* first error ends it.
RECURSIVE scriptTagsForEachUncaught(_, _, _)
scriptTagsForEachUncaught(scriptTags, index, acc) ==
    IF index > Len(scriptTags) THEN acc
    ELSE IF acc.thrown # <<>> /\ acc.thrown[Len(acc.thrown)] # NoError THEN acc
    ELSE scriptTagsForEachUncaught(scriptTags, index + 1,
            scriptTagRendered(acc, scriptTags[index],
                renderRailroadDiagram([expressionCode |-> scriptTags[index],
                                       ruleName |-> "rule"])))

\* scriptTags.forEach of doRender, every tag within a .syntax-rule element.
RECURSIVE scriptTagsForEach(_, _, _)
scriptTagsForEach(scriptTags, index, acc) ==
    IF index > Len(scriptTags) THEN acc
    ELSE scriptTagsForEach(scriptTags, index + 1,
            scriptTagRendered(acc, scriptTags[index],
                renderRailroadDiagram([expressionCode |-> scriptTags[index],
                                       ruleName |-> "rule"])))

\* RailroadDiagrams.renderDiagramScripts() on a document:
\* document.querySelectorAll('script[type="text/railroad"]') are its tags.
renderDiagramScripts(document) ==
    scriptTagsForEach(document.scriptTags, 1, document)

(***************************************************************************)
(* SpecPage: a document that uses the library.                             *)
(***************************************************************************)
\* The texts of the string literals of the text boxes.
Contents == { <<"host">>, <<"MultiLineString", "(">>, <<"eval", "(", "code", ")">> }

\* name("content", "terminal")
Leaf(name, content) ==
    [fn |-> name, args |-> <<[str |-> content], [str |-> <<"terminal">>]>>]

\* The expression codes of the script tags and of the direct calls of
\* validateExpressionCode: a text box, a call of a function the library does
\* not allow, either of them after the text box of "://" in a sequence, and
\* a bypass behind a comment.
Codes ==
    { Leaf("textBox", content) : content \in Contents }
    \cup { Leaf(name, <<"host">>) : name \in {"badFunction", "eval"} }
    \cup { [fn |-> "sequence",
            args |-> <<Leaf("textBox", <<":", "//">>), Leaf(name, <<"host">>)>>] :
              name \in {"textBox", "badFunction"} }
    \cup { [comment |-> <<"eval", "(", "code", ")">>,
            code |-> [fn |-> "bypass", args |-> <<Leaf("textBox", <<"host">>)>>]] }

\* The documents: up to MaxScripts script tags.
Documents == UNION { [1..n -> Codes] : n \in 0..MaxScripts }

\* validateExpressionCode(code), called as test-validation.js calls it.
ValidateExpressionCode(code) ==
    /\ lastCall' = "validateExpressionCode"
    /\ err' = validateExpressionCode(SourceText(code))
    /\ page' = [page EXCEPT !.code = <<code>>]
    /\ UNCHANGED <<tb, wasOpen, operands, rules, svg>>

\* RailroadDiagrams.renderDiagramScripts(), once the document has loaded: it
\* catches what the rendering of a tag throws.
RenderDiagramScripts(scriptTags) ==
    /\ page.containers = <<>>
    /\ lastCall' = "renderDiagramScripts"
    /\ err' = NoError
    /\ page' = renderDiagramScripts([page EXCEPT !.scriptTags = scriptTags])
    /\ UNCHANGED <<tb, wasOpen, operands, rules, svg>>

NextPage ==
    \/ \E code \in Codes : ValidateExpressionCode(code)
    \/ \E scriptTags \in Documents : RenderDiagramScripts(scriptTags)

SpecPage == Init /\ [][NextPage]_vars

(***************************************************************************)
(* Properties of validation and of the rendering of script tags (SpecPage).*)
(***************************************************************************)
\* The code calls, outside its string literals, a function other than
\* textBox, sequence, stack, bypass and loop.
RECURSIVE CallsOtherFunction(_)
CallsOtherFunction(code) ==
    IF "str" \in DOMAIN code THEN FALSE
    ELSE IF "comment" \in DOMAIN code THEN CallsOtherFunction(code.code)
    ELSE \/ code.fn \notin {"textBox", "sequence", "stack", "bypass", "loop"}
         \/ \E i \in 1..Len(code.args) : CallsOtherFunction(code.args[i])

\* C12: when the rendering of the diagram of one script tag fails,
\* renderDiagramScripts still attempts every later script tag, and the
\* container of the failed diagram shows an error message in place of the
\* diagram.
C12_ErrorIsolation ==
    lastCall = "renderDiagramScripts" =>
        /\ Len(page.containers) = Len(page.scriptTags)
        /\ Len(page.thrown) = Len(page.scriptTags)
        /\ \A i \in 1..Len(page.scriptTags) :
              /\ CallsOtherFunction(page.scriptTags[i]) => page.thrown[i] # NoError
              /\ page.thrown[i] # NoError =>
                    /\ Len(page.containers[i]) = 1
                    /\ page.containers[i][1].tag = "div"
                    /\ page.containers[i][1].class = "error"
                    /\ page.containers[i][1].message = page.thrown[i]
              /\ page.thrown[i] = NoError =>
                    /\ Len(page.containers[i]) = 1
                    /\ "children" \in DOMAIN page.containers[i][1]
                    /\ Len(page.containers[i][1].children) = 1

\* The first of two script tags failed and the second shows its diagram.
C12_Witness ==
    /\ lastCall = "renderDiagramScripts"
    /\ Len(page.scriptTags) = 2
    /\ page.thrown[1] # NoError
    /\ page.thrown[2] = NoError
    /\ page.containers[1][1].tag = "div"
    /\ "children" \in DOMAIN page.containers[2][1]

\* C13: validateExpressionCode throws for every expression that contains,
\* outside a string literal, a call to a function whose name is not one of
\* textBox, sequence, stack, bypass, loop.
C13_RejectsOtherFunctions ==
    (lastCall = "validateExpressionCode" /\ CallsOtherFunction(page.code[1]))
        => err # NoError

\* C14: validateExpressionCode returns true for every expression made only
\* of calls to the five allowed functions, whatever text its string literals
\* contain.
C14_AcceptsAllowedFunctions ==
    (lastCall = "validateExpressionCode" /\ ~CallsOtherFunction(page.code[1]))
        => err = NoError

\* C15: the renderRailroadDiagram that the library exposes on the global
\* object evaluates an expression code only after validateExpressionCode has
\* accepted it: no code that validation rejects is evaluated.
C15_EvaluatedOnlyIfValid ==
    \A i \in 1..Len(page.evaluated) :
        validateExpressionCode(SourceText(page.evaluated[i])) = NoError


(***************************************************************************)
(* SpecRender: a script makes Diagrams and adds rules whose expressions    *)
(* may hold a LayoutBox of its own; an addRule that throws is caught by    *)
(* the script, which goes on with the same Diagram or with a new one. tb   *)
(* is the TrackBuilder the last failed render threw with, as it was left.  *)
(***************************************************************************)
\* The expressions of the script: Expression combinators over a 2-character
\* literal and over LayoutBoxes whose render fails.
Boxes ==
    { textBox(2, "terminal"),
      layoutBox(2),
      sequence(<<textBox(2, "terminal"), layoutBox(2)>>),
      sequence(<<layoutBox(4), textBox(2, "terminal")>>),
      stack(<<textBox(2, "terminal"), layoutBox(2)>>),
      bypass(layoutBox(2)),
      loop(textBox(2, "terminal")),
      loop(layoutBox(2)),
      textBox(3, "nonterminal") }

\* new Diagram(containerId, gridSize, ...): no rules, an emptied svg.
NewDiagram ==
    /\ rules' = <<>>
    /\ svg' = _invalidate(<<>>, NewSvg).svg
    /\ err' = NoError
    /\ lastCall' = "Diagram"
    /\ UNCHANGED <<tb, wasOpen, operands, page>>

\* done is the [svg, thrown, raised] of _invalidate; the script catches what
\* was thrown.
Rerendered(done) ==
    /\ Invalidated(done)
    /\ tb' = IF done.raised = <<>> THEN tb
             ELSE [done.raised[1] EXCEPT !.thrown = NoError]
    /\ wasOpen' = IsOpen(tb)

\* diagram.addRule(title, expression)
AddLayoutBox(title, expression) ==
    /\ Len(rules) < MaxRules
    /\ rules' = Append(rules, [title |-> title, expression |-> expression])
    /\ Rerendered(_invalidate(rules', svg))
    /\ lastCall' = "addRule"
    /\ UNCHANGED <<operands, page>>

NextRender ==
    \/ NewDiagram
    \/ \E expression \in Boxes : AddLayoutBox("rule", expression)

SpecRender == Init /\ [][NextRender]_vars

\* Every path element below a list of elements.
RECURSIVE PathsWithin(_)
PathsWithin(content) ==
    { content[i] : i \in { j \in 1..Len(content) : IsPath(content[j]) } }
    \cup UNION { PathsWithin(content[i].content) :
                    i \in { j \in 1..Len(content) : IsGroup(content[j]) } }

\* The path element continues the open path of the builder t.
Continues(element, t) ==
    /\ IsOpen(t)
    /\ Len(element.d) >= Len(t.currentPath[1].commands)
    /\ SubSeq(element.d, 1, Len(t.currentPath[1].commands)) = t.currentPath[1].commands

\* C11: after a render that threw part-way and left its TrackBuilder with an
\* open path, an addRule (on the same Diagram or on a new one) never throws
\* 'Path already started' and no path it draws continues the open path the
\* failed render left.
C11_NoDanglingPath ==
    (lastCall = "addRule" /\ wasOpen) =>
        /\ err # ErrAlreadyStarted
        /\ \A element \in PathsWithin(svg.children) : ~Continues(element, tb)

\* A rule of a new Diagram was rendered whole after an earlier render had
\* thrown with a path open.
C11_Witness ==
    /\ lastCall = "addRule"
    /\ wasOpen
    /\ IsOpen(tb)
    /\ err = NoError
    /\ rules # <<>>
    /\ PathsWithin(svg.children) # {}

(***************************************************************************)
(* Properties of the rendered diagram, continued (Spec and SpecLayout).    *)
(***************************************************************************)
\* The points that span a path: the ends of its pieces and the corners of
\* its arcs.
PathPoints(d) ==
    { CommandEnd(d[k]) : k \in 1..Len(d) }
    \cup { <<d[k][2], d[k][3]>> : k \in { j \in 1..Len(d) : d[j][1] = "Q" } }

Least(S) == CHOOSE x \in S : \A y \in S : x <= y

Most(S) == CHOOSE x \in S : \A y \in S : x >= y

\* The least and greatest x and y among a set of points, in pixels.
Bounds(points) ==
    [ minX |-> Least({ q[1] : q \in points }), maxX |-> Most({ q[1] : q \in points }),
      minY |-> Least({ q[2] : q \in points }), maxY |-> Most({ q[2] : q \in points }) ]

\* The points of all the rails a node drew in its own group.
RailPoints(content) ==
    UNION { PathPoints(Paths(content)[j].d) : j \in 1..Len(Paths(content)) }

\* A rendered bypass and a rendered loop of equal children.
SameChild(b, l) ==
    /\ b.node.kind = "bypass"
    /\ l.node.kind = "loop"
    /\ b.node.children = l.node.children

ChildrenInOrder(node, groups) ==
    /\ Len(groups) = Len(Children(node))
    /\ \A i \in 1..(Len(groups) - 1) :
          /\ node.kind = "sequence" => groups[i].x < groups[i + 1].x
          /\ node.kind = "stack" => groups[i].y < groups[i + 1].y

\* The elements of a group are in the order of the calls that drew them.
\* C22 as stated: every parent draws all of its own rails before any of its
\* children is rendered, and the children are rendered left to right
\* (sequence) or top to bottom (stack).
C22_ParentDrawsFirst ==
    \A r \in AllRendered :
        /\ ChildrenInOrder(r.node, Groups(r.content))
        /\ \A i \in 1..Len(r.content) : \A j \in 1..Len(r.content) :
              (IsPath(r.content[i]) /\ IsGroup(r.content[j])) => i < j

\* The place among the elements of a node's group of its i-th child's group
\* and of the rails drawn after it: a sequence draws one rail after each
\* child but the last, a stack two after each child, a bypass or loop three
\* after its child.
RailsPerChild(node) ==
    CASE node.kind = "sequence" -> 1
      [] node.kind = "stack" -> 2
      [] node.kind \in {"bypass", "loop"} -> 3

ChildThenRails(node, content) ==
    LET k == RailsPerChild(node)
        n == Len(Children(node))
    IN /\ Len(content) = IF node.kind = "sequence" THEN 2 * n - 1 ELSE (k + 1) * n
       /\ \A p \in 1..Len(content) :
             IF (p - 1) % (k + 1) = 0 THEN IsGroup(content[p]) ELSE IsPath(content[p])

\* C22 amended: the children are rendered in list order, left to right
\* (sequence) or top to bottom (stack), and every parent renders a child
\* before it draws the rails that join that child: a sequence renders child i
\* and then draws the rail to child i + 1, a stack renders child i and then
\* draws its left and right rail, a bypass or loop renders its child and then
\* draws its three paths. No parent draws a rail before its first child is
\* rendered.
C22_ChildBeforeItsRails ==
    \A r \in AllRendered :
        r.node.kind # "textBox" =>
            /\ ChildrenInOrder(r.node, Groups(r.content))
            /\ ChildThenRails(r.node, r.content)
            /\ IsGroup(r.content[1])

\* A bypass of a sequence of two has been rendered.
C22_Witness ==
    \E r \in RenderedOfKind("bypass") :
        /\ r.node.children[1].kind = "sequence"
        /\ Len(r.node.children[1].children) = 2
        /\ Len(r.content) = 4
        /\ Len(Groups(r.content)[1].content) = 3

\* The group g of a child was placed at the x the code computes as
\* margin / 2 grid units, and the division left no remainder.
PlacedAtHalf(g, margin) ==
    /\ margin % 2 = 0
    /\ 2 * g.x = margin * GridSize

\* Every coordinate of the path d is a whole number of grid units.
OnGrid(d) ==
    \A k \in 1..Len(d) : \A p \in 2..Len(d[k]) : d[k][p] % GridSize = 0

\* C23: no fractional coordinates. Every child is placed at, and every rail
\* runs through, whole grid units; the divisions by two in stack (xOffset =
\* 2 + (maxChildWidth - child.width) / 2) and in bypass and loop (childX =
\* (width - child.width) / 2) divide even numbers, and a stack child's left
\* offset equals its right margin.
C23_NoFractionalCoordinates ==
    \A r \in AllRendered :
        /\ \A j \in 1..Len(Paths(r.content)) : OnGrid(Paths(r.content)[j].d)
        /\ \A i \in 1..Len(Children(r.node)) :
              LET child == Children(r.node)[i]
                  g     == Groups(r.content)[i]
              IN /\ g.x % GridSize = 0
                 /\ g.y % GridSize = 0
                 /\ r.node.kind = "stack" =>
                       /\ PlacedAtHalf(g, 4 + r.node.maxChildWidth - child.width)
                       /\ g.x = r.node.width * GridSize
                                   - (g.x + child.width * GridSize)
                 /\ r.node.kind \in {"bypass", "loop"} =>
                       PlacedAtHalf(g, r.node.width - child.width)

\* A rendered stack with a child narrower than the widest one, and a rendered
\* bypass or loop.
C23_Witness ==
    \E r \in RenderedOfKind("stack") :
        /\ \E i \in 1..Len(r.node.children) :
              r.node.children[i].width < r.node.maxChildWidth
        /\ \E i \in 1..Len(r.node.children) :
              r.node.children[i].kind \in {"bypass", "loop"}

\* The expressions of the rules, in insertion order.
Expressions == [k \in 1..Len(rules) |-> rules[k].expression]

\* The k-th child of the svg is the group of the k-th rule: a rule-group at
\* x = 1 and y = 1 + the heights of the rules before it, holding the drawing
\* of that rule's expression.
IsGroupOfRule(g, k) ==
    /\ g.tag = "g"
    /\ g.class = "rule-group"
    /\ g.x = 1 * GridSize
    /\ g.y = (1 + Total(Expressions, "height", k - 1)) * GridSize
    /\ Len(Groups(g.content)) = 1
    /\ Groups(g.content)[1].content
          = render(rules[k].expression,
                   RenderContext(<<>>, GridSize, showBounds, <<>>)).trackBuilder.group

Boxed(call, result, arity) ==
    /\ Alive < MaxBoxes
    /\ Evaluated(call, result, arity)

NextLayout ==
    \/ Boxed("textBox", textBox(2, "terminal"), 0)
    \/ \E k \in 1..Len(operands) : Boxed("sequence", sequence(LastOperands(k)), k)
    \/ \E k \in 1..Len(operands) : Boxed("stack", stack(LastOperands(k)), k)
    \/ operands # <<>> /\ Boxed("bypass", bypass(operands[Len(operands)]), 1)
    \/ operands # <<>> /\ Boxed("loop", loop(operands[Len(operands)]), 1)
    \/ AddRule("rule")

SpecLayout == Init /\ [][NextLayout]_vars

\* The box of child, placed by the group g, lies inside the box of node.
ChildInside(node, child, g) ==
    /\ g.x >= 0
    /\ g.y >= 0
    /\ g.x + child.width * GridSize <= node.width * GridSize
    /\ g.y + child.height * GridSize <= node.height * GridSize

\* C25: for every node built by the combinators, each child box placed by
\* the node's render lies entirely inside the node's own box: childX >= 0,
\* childY >= 0, childX + child.width <= width and childY + child.height <=
\* height.
C25_ChildContainment ==
    \A r \in AllRendered :
        \A i \in 1..Len(Children(r.node)) :
            ChildInside(r.node, Children(r.node)[i], Groups(r.content)[i])

\* The number of paths a node's render starts with its own TrackBuilder.
StartsOf(node) ==
    CASE node.kind = "textBox" -> 2
      [] node.kind = "sequence" -> Len(node.children) - 1
      [] node.kind = "stack" -> 2 * Len(node.children)
      [] node.kind \in {"bypass", "loop"} -> 3

\* The path element was begun by one start and by no other.
OneStart(element) ==
    /\ element.seq[1][1] = "start"
    /\ \A k \in 2..Len(element.seq) : element.seq[k][1] # "start"
    /\ element.d[1][1] = "M"
    /\ \A k \in 2..Len(element.d) : element.d[k][1] # "M"

\* C26: rendering a tree built by the five combinators raises no path-state
\* error; every path a node starts is finished before the node starts the
\* next one, so each start of each TrackBuilder has become one path element
\* of the node's group and no path is left open when the render completes.
C26_NoPathStateError ==
    /\ lastCall = "addRule" => err = NoError
    /\ Len(svg.children) = Len(rules)
    /\ \A r \in AllRendered :
          /\ Len(Paths(r.content)) = StartsOf(r.node)
          /\ \A j \in 1..Len(Paths(r.content)) : OneStart(Paths(r.content)[j])

\* A rule whose expression nests a stack of two in a loop has been rendered.
C26_Witness ==
    /\ lastCall = "addRule"
    /\ err = NoError
    /\ \E r \in RenderedOfKind("loop") :
          /\ r.node.children[1].kind = "stack"
          /\ Len(r.node.children[1].children) = 2
          /\ Len(Paths(r.content)) = 3

\* The distances of the forward calls that drew a path element.
ForwardRuns(element) ==
    { element.seq[k][2] : k \in { j \in 1..Len(element.seq) : element.seq[j][1] = "forward" } }

\* C27: every forward(n) issued while rendering a tree built by the five
\* combinators has n >= 0: the vertical and horizontal runs of the stack's
\* branch rails and the runs baseline - 2 and width - 4 of bypass and loop
\* are never negative.
C27_ForwardNeverNegative ==
    \A r \in AllRendered :
        /\ \A j \in 1..Len(Paths(r.content)) :
              \A n \in ForwardRuns(Paths(r.content)[j]) : n >= 0
        /\ r.node.kind \in {"bypass", "loop"} =>
              /\ r.node.baseline - 2 >= 0
              /\ r.node.width - 4 >= 0
              /\ ForwardRuns(Paths(r.content)[1])
                    = {r.node.baseline - 2, r.node.width - 4}
        /\ r.node.kind = "stack" =>
              \A j \in 3..Len(Paths(r.content)) :
                  /\ Len(Paths(r.content)[j].seq) = 5
                  /\ Paths(r.content)[j].seq[3][2] >= 0
                  /\ Paths(r.content)[j].seq[5][2] >= 0

\* A rendered stack whose widest child is not the first, so that a branch
\* rail has a horizontal run of 0, and a rendered bypass or loop of a text
\* box, whose vertical runs are 0.
C27_Witness ==
    /\ \E r \in RenderedOfKind("stack") :
          /\ Len(Paths(r.content)) >= 4
          /\ Paths(r.content)[3].seq[5] = <<"forward", 0>>
    /\ \E r \in AllRendered :
          /\ r.node.kind \in {"bypass", "loop"}
          /\ r.node.baseline - 2 = 0

\* C28: for every node built by the five combinators (sequence and stack of
\* at least one child), 1 <= baseline < height: the main line lies strictly
\* inside the node's vertical extent.
C28_BaselineInsideHeight ==
    \A n \in AllNodes :
        /\ 1 <= n.baseline
        /\ n.baseline < n.height

\* A sequence whose children have different baselines, and a stack, have
\* been built.
C28_Witness ==
    /\ \E n \in NodesOfKind({"sequence"}) :
          /\ Len(n.children) = 2
          /\ n.children[1].baseline # n.children[2].baseline
    /\ \E n \in NodesOfKind({"stack"}) : n.height > n.baseline + 1

(***************************************************************************)
(* Failing calls of the TrackBuilder (SpecTrack).                          *)
(***************************************************************************)
\* The builder is as it was: cursor, heading, the commands of the open path
\* and the paths attached to the group.
SameBuilderState(before, after) ==
    /\ after.currentX = before.currentX
    /\ after.currentY = before.currentY
    /\ after.currentDirection = before.currentDirection
    /\ after.currentPath = before.currentPath
    /\ after.paths = before.paths
    /\ after.group = before.group

\* C29: a TrackBuilder call that throws (start on an open path; forward,
\* turnLeft, turnRight or finish with no open path) leaves the builder's
\* cursor, heading, in-progress commands and attached paths as they were
\* before the call.
C29_FailedCallChangesNothing ==
    [][ err' # NoError =>
            /\ SameBuilderState(tb, tb')
            /\ \/ lastCall' = "start" /\ IsOpen(tb) /\ err' = ErrAlreadyStarted
               \/ /\ lastCall' \in {"forward", "turnLeft", "turnRight"}
                  /\ ~IsOpen(tb) /\ err' = ErrNoPathStarted
               \/ lastCall' = "finish" /\ ~IsOpen(tb) /\ err' = ErrNoPathToFinish
      ]_vars

\* start has thrown on an open path that had already turned, and the path is
\* still open with its commands.
C29_Witness ==
    /\ lastCall = "start"
    /\ err = ErrAlreadyStarted
    /\ wasOpen
    /\ IsOpen(tb)
    /\ Len(tb.currentPath[1].commands) >= 3
    /\ tb.currentDirection # EAST

(***************************************************************************)
(* A failed addRule (SpecRender).                                          *)
(***************************************************************************)
\* The expression holds no LayoutBox whose render throws.
RendersWhole(expression) == \A n \in SubNodes(expression) : n.kind # "custom"

\* C30: if rendering raises an error during Diagram.addRule, the rule list
\* is left as it was before the call, and a later addRule of a rule that
\* renders whole succeeds.
C30_FailedAddRuleKeepsRules ==
    [][ lastCall' = "addRule" =>
            /\ err' # NoError => rules' = rules
            /\ (rules' # rules /\ RendersWhole(rules'[Len(rules')].expression))
                   => err' = NoError
      ]_vars

====
